---- MODULE Spec2Model ----
(***************************************************************************)
(* Sandia: the analysis page (STATAPage / EnhancedSTATAPage) that triggers *)
(* the static-analysis Lambda and polls the result store, the backend      *)
(* routes it talks to (routes/analysis.js), and the result bucket the      *)
(* Lambda writes.                                                          *)
(*                                                                         *)
(* A page is a React component: its useState cells are the fields of       *)
(* pg[p]; every handler (an effect, a timer callback, a click, the         *)
(* continuation of an await) is one action, and the re-render with the     *)
(* poll effect that follows the handler's state updates is part of it.     *)
(***************************************************************************)
EXTENDS Integers, FiniteSets, Sequences, TLC

VARIABLES
    pg,             \* page -> the component's state cells and its poll timer
    inits,          \* page -> the initAnalysis() calls still running
    fetches,        \* page -> the fetchAnalysisResults() calls awaiting getAnalysisResults
    count,          \* page -> history counters: init-effect runs, reads issued by origin,
                    \*         acknowledged triggers, manual Retry clicks
    lastOutcome,    \* page -> outcome of the read whose response it handled last
    store,          \* the results bucket: fileId -> content of results/<fileId>.json
    lambdaPending,  \* fileId -> asynchronous ('Event') Lambda invocations not yet run
    invocations,    \* fileId -> Lambda invocations accepted so far
    faults,         \* storage faults (S3 errors other than NoSuchKey) so far
    ml,             \* ML engine -> the request to its route and the route's answer
    analysis,       \* the Analyze call over the three engines
    calc,           \* a computation of the reducer or of the risk score: input and result
    statusResp,     \* fileId -> the last answer of GET /status/:fileId
    uploads,        \* the jobs bucket: the keys of the objects it holds
    api             \* the last answer of a request sent to the backend directly

vars == <<pg, inits, fetches, count, lastOutcome, store, lambdaPending, invocations,
          faults, ml, analysis, calc, statusResp, uploads, api>>

----------------------------------------------------------------------------
(* Bounds of the model *)

MaxRetry == 1
MaxFaults == 1
MaxInvocations == 1

(* Program constants *)

MaxPollingAttempts == 10

(* MaxKeys of the listing in DELETE /:fileId and in GET /results *)
DeleteMaxKeys == 10
ListMaxKeys == 100

Pages == {"p1", "p2"}
FileIds == {"f1"}
None == "none"

(* error cell: null, or one of the messages the handlers set *)
NoError == "null"
ErrNotFound == "Analysis results not found. The analysis may still be in progress, please wait a moment and try again."
ErrFailed == "Failed to load analysis results. Please try again."
ErrNoFileId == "No file ID provided"

(* content of a result object: absent, unparseable, or a result document.   *)
(* "r0" is a result left by an earlier analysis, "r1" the one the Lambda    *)
(* writes now.                                                              *)
Absent == "absent"
Malformed == "malformed"
Results == {"r0", "r1"}

(* the engines: the rule-based static analysis behind the page, and the two *)
(* ML routes                                                                *)
MlEngines == {"gnn", "bert"}
Engines == {"stata"} \cup MlEngines

----------------------------------------------------------------------------
(* The component *)

InitialState ==
    [mounted |-> FALSE, fileId |-> None, meta |-> FALSE,
     loading |-> TRUE, error |-> NoError, analysisTriggered |-> FALSE,
     pollingAttempts |-> 0, selectedFile |-> "null", pollTimer |-> FALSE]

(* variants of the polling condition with a plausible slip: the attempt     *)
(* bound off by one, the bound one short, the trigger flag left out, the    *)
(* error left out                                                           *)
PollCondOffByOne(s) ==
    s.analysisTriggered /\ s.error # NoError /\ s.pollingAttempts <= MaxPollingAttempts

PollCondOneShort(s) ==
    s.analysisTriggered /\ s.error # NoError /\ s.pollingAttempts < MaxPollingAttempts - 1

PollCondNoTrigger(s) ==
    s.error # NoError /\ s.pollingAttempts < MaxPollingAttempts

PollCondIgnoresError(s) ==
    s.analysisTriggered /\ s.pollingAttempts < MaxPollingAttempts

(* the condition of the polling effect *)
PollCond(s) ==
    s.analysisTriggered /\ s.error # NoError /\ s.pollingAttempts < MaxPollingAttempts

(* the polling effect's dependencies [analysisTriggered, error, pollingAttempts, searchParams] *)
DepsChanged(old, new) ==
    \/ old.analysisTriggered # new.analysisTriggered
    \/ old.error # new.error
    \/ old.pollingAttempts # new.pollingAttempts
    \/ old.mounted # new.mounted

(* re-render after a handler: when a dependency changed the effect's cleanup *)
(* clears the pending timer and the effect arms a new one if its condition  *)
(* holds; otherwise the timer is left as it is.  A state update that        *)
(* reaches a component already unmounted is dropped.                        *)
PollEffect(old, new) ==
    IF ~new.mounted THEN old
    ELSE IF DepsChanged(old, new)
    THEN [new EXCEPT !.pollTimer = new.mounted /\ PollCond(new)]
    ELSE new

(* variant: setError(null) left out *)
FetchStartKeepsError(s) == [s EXCEPT !.loading = TRUE]

(* the synchronous head of fetchAnalysisResults: setLoading(true); setError(null) *)
FetchStart(s) == [s EXCEPT !.loading = TRUE, !.error = NoError]

(* the message the catch block of fetchAnalysisResults sets *)
ErrorMessage(outcome) ==
    IF outcome = "notfound" THEN ErrNotFound ELSE ErrFailed

(* variant: the flag set outside the try block *)
TriggerEndAlways(s, ok) == [s EXCEPT !.analysisTriggered = TRUE]

(* the continuation of triggerLambdaAnalysis after the await:                *)
(* setAnalysisTriggered(true) when the request succeeded, the error          *)
(* swallowed when it threw                                                   *)
TriggerEnd(s, ok) ==
    IF ok THEN [s EXCEPT !.analysisTriggered = TRUE] ELSE s

(* variant: the result of a successful fetch is not stored *)
FetchEndDropsResult(s, outcome, data) ==
    IF outcome = "ok"
    THEN [s EXCEPT !.loading = FALSE]
    ELSE [s EXCEPT !.error = ErrorMessage(outcome),
                   !.selectedFile = "noresult",
                   !.loading = FALSE]

(* variant: a failed fetch leaves a default result instead of none *)
FetchEndZeroResult(s, outcome, data) ==
    IF outcome = "ok"
    THEN [s EXCEPT !.selectedFile = data, !.loading = FALSE]
    ELSE [s EXCEPT !.error = ErrorMessage(outcome),
                   !.selectedFile = "r0",
                   !.loading = FALSE]

(* the continuation of fetchAnalysisResults after the await *)
FetchEnd(s, outcome, data) ==
    IF outcome = "ok"
    THEN [s EXCEPT !.selectedFile = data, !.loading = FALSE]
    ELSE [s EXCEPT !.error = ErrorMessage(outcome),
                   !.selectedFile = "noresult",
                   !.loading = FALSE]

NextReadId(p) == count[p].first + count[p].timer + count[p].manual + 1

(* getAnalysisResults(fileId): the GET /analysis/results/:fileId request goes out *)
IssueRead(p, f, origin) ==
    /\ fetches' = [fetches EXCEPT ![p] =
                     @ \cup {[id |-> NextReadId(p), fileId |-> f, st |-> "req", data |-> None]}]
    /\ count' = [count EXCEPT ![p][origin] = @ + 1]

----------------------------------------------------------------------------
(* Object keys.  A key is the sequence of the pieces it is put together     *)
(* from, and a file ID the sequence of its pieces: <<"f1">> and             *)
(* <<"f1", "0">> are the IDs f1 and f10.                                    *)
IsPrefix(pre, key) ==
    Len(pre) <= Len(key) /\ SubSeq(key, 1, Len(pre)) = pre

(* S3_CONFIG.uploadPath *)
uploadPath == <<"uploads/">>

(* variant: the listing prefix without its closing slash *)
UploadPrefixNoSlash(fileId) == uploadPath \o fileId

(* the Prefix of the listing in DELETE /:fileId: `${uploadPath}${fileId}/` *)
UploadPrefix(fileId) == uploadPath \o fileId \o <<"/">>

(* the key an uploaded file is stored under in the jobs bucket *)
UploadKey(fileId, name) == uploadPath \o fileId \o <<"/", name>>

(* the Key of GET /results/:fileId and GET /status/:fileId: `results/${fileId}.json` *)
ResultKey(fileId) == <<"results/">> \o fileId \o <<".json">>

(* obj.Key.replace('.json', ''): the first occurrence is removed *)
ListedFileId(key) ==
    IF \E i \in 1..Len(key) : key[i] = ".json"
    THEN LET i == CHOOSE i \in 1..Len(key) :
                    key[i] = ".json" /\ \A j \in 1..(i - 1) : key[j] # ".json"
         IN  SubSeq(key, 1, i - 1) \o SubSeq(key, i + 1, Len(key))
    ELSE key

(* the keys of the results bucket, and the object stored under a key *)
ResultsBucketKeys == {ResultKey(<<f>>) : f \in {g \in FileIds : store[g] # Absent}}

ObjectAt(key) ==
    IF key \in ResultsBucketKeys
    THEN store[CHOOSE f \in FileIds : ResultKey(<<f>>) = key]
    ELSE Absent

(* ListObjectsV2 with a Prefix and MaxKeys: the possible Contents *)
ListObjects(keys, prefix, maxKeys) ==
    LET matching == {k \in keys : IsPrefix(prefix, k)}
        n == IF Cardinality(matching) < maxKeys THEN Cardinality(matching) ELSE maxKeys
    IN  {c \in SUBSET matching : Cardinality(c) = n}

(* an answer: the route, the file ID it was asked for, the HTTP status, and *)
(* the data of the body: the result, the listing or the deleted keys        *)
Answer(op, fileId, status) ==
    [op |-> op, id |-> fileId, status |-> status, result |-> <<>>, results |-> {},
     deletedKeys |-> {}]

NoAnswer == Answer(None, <<>>, 0)

----------------------------------------------------------------------------
Init ==
    /\ pg = [p \in Pages |-> InitialState]
    /\ inits = [p \in Pages |-> {}]
    /\ fetches = [p \in Pages |-> {}]
    /\ count = [p \in Pages |->
                 [runs |-> 0, first |-> 0, timer |-> 0, manual |-> 0, absent |-> 0,
                  acks |-> 0, nacks |-> 0, retries |-> 0, unmounts |-> 0]]
    /\ lastOutcome = [p \in Pages |-> None]
    /\ store \in [FileIds -> {Absent, Malformed, "r0"}]
    /\ lambdaPending = [f \in FileIds |-> 0]
    /\ invocations = [f \in FileIds |-> 0]
    /\ faults = 0
    /\ ml = [e \in MlEngines |-> [st |-> "idle", status |-> 0, verdict |-> None]]
    /\ analysis = [st |-> "idle", response |-> None]
    /\ calc = [op |-> None, in |-> None, out |-> None]
    /\ statusResp = [f \in FileIds |-> None]
    /\ uploads = {UploadKey(<<f>>, "a.sh") : f \in FileIds}
    /\ api = NoAnswer

(* The init effect.  With a fileId and the S3 metadata in the URL           *)
(* initAnalysis sends the trigger request; with a fileId only it goes       *)
(* straight to fetchAnalysisResults; without a fileId the effect records    *)
(* the error.  s is the component's state when the effect runs.             *)
InitEffect(p, s) ==
    \/ /\ s.fileId # None /\ s.meta
       /\ pg' = [pg EXCEPT ![p] = PollEffect(pg[p], s)]
       /\ inits' = [inits EXCEPT ![p] =
                      @ \cup {[run |-> count[p].runs + 1, fileId |-> s.fileId, pc |-> "trigger"]}]
       /\ count' = [count EXCEPT ![p].runs = @ + 1]
       /\ UNCHANGED fetches
    \/ /\ s.fileId # None /\ ~s.meta
       /\ pg' = [pg EXCEPT ![p] = PollEffect(pg[p], FetchStart(s))]
       /\ fetches' = [fetches EXCEPT ![p] =
                        @ \cup {[id |-> NextReadId(p), fileId |-> s.fileId,
                                 st |-> "req", data |-> None]}]
       /\ count' = [count EXCEPT ![p].first = @ + 1, ![p].runs = @ + 1]
       /\ UNCHANGED inits
    \/ /\ s.fileId = None
       /\ pg' = [pg EXCEPT ![p] =
                   PollEffect(pg[p], [s EXCEPT !.loading = FALSE, !.error = ErrNoFileId])]
       /\ count' = [count EXCEPT ![p].runs = @ + 1]
       /\ UNCHANGED <<inits, fetches>>

(* Opening the page: first render, then the init effect *)
Mount(p) ==
    /\ ~pg[p].mounted
    /\ count[p].unmounts = 0
    /\ \E f \in FileIds \cup {None} :
       \E m \in (IF f = None THEN {FALSE} ELSE BOOLEAN) :
         InitEffect(p, [InitialState EXCEPT !.mounted = TRUE, !.fileId = f, !.meta = m])
    /\ UNCHANGED <<lastOutcome, store, lambdaPending, invocations, faults, ml, analysis, calc, statusResp,
                   uploads, api>>

(* POST /trigger/:fileId on the backend: the request of the page carries    *)
(* fileId, s3Key and s3Bucket, so validation passes; lambdaClient.send      *)
(* either accepts the asynchronous invocation (202) or throws (500).        *)
TriggerServeOk(p) ==
    \E t \in inits[p] :
      /\ t.pc = "trigger"
      /\ inits' = [inits EXCEPT ![p] = (@ \ {t}) \cup {[t EXCEPT !.pc = "ack"]}]
      /\ lambdaPending' = [lambdaPending EXCEPT ![t.fileId] = @ + 1]
      /\ invocations' = [invocations EXCEPT ![t.fileId] = @ + 1]
      /\ UNCHANGED <<pg, fetches, count, lastOutcome, store, faults, ml, analysis, calc, statusResp,
                   uploads, api>>

TriggerServeFail(p) ==
    \E t \in inits[p] :
      /\ t.pc = "trigger"
      /\ inits' = [inits EXCEPT ![p] = (@ \ {t}) \cup {[t EXCEPT !.pc = "nack"]}]
      /\ UNCHANGED <<pg, fetches, count, lastOutcome, store, lambdaPending, invocations, faults, ml, analysis,
                   calc, statusResp,
                   uploads, api>>

(* the trigger response reaches triggerLambdaAnalysis; initAnalysis then    *)
(* sleeps 5 s                                                               *)
TriggerDeliver(p) ==
    \E t \in inits[p] :
      /\ t.pc \in {"ack", "nack"}
      /\ inits' = [inits EXCEPT ![p] = (@ \ {t}) \cup {[t EXCEPT !.pc = "wait"]}]
      /\ pg' = [pg EXCEPT ![p] = PollEffect(@, TriggerEnd(@, t.pc = "ack"))]
      /\ count' = [count EXCEPT ![p].acks = IF t.pc = "ack" THEN @ + 1 ELSE @,
                                ![p].nacks = IF t.pc = "nack" THEN @ + 1 ELSE @]
      /\ UNCHANGED <<fetches, lastOutcome, store, lambdaPending, invocations, faults, ml, analysis,
                   calc, statusResp,
                   uploads, api>>

(* the 5 s sleep of initAnalysis ends: fetchAnalysisResults(fileId), the    *)
(* first read                                                               *)
WaitDone(p) ==
    \E t \in inits[p] :
      /\ t.pc = "wait"
      /\ inits' = [inits EXCEPT ![p] = @ \ {t}]
      /\ pg' = [pg EXCEPT ![p] = PollEffect(@, FetchStart(@))]
      /\ IssueRead(p, t.fileId, "first")
      /\ UNCHANGED <<lastOutcome, store, lambdaPending, invocations, faults, ml, analysis, calc, statusResp,
                   uploads, api>>

(* GET /results/:fileId on the backend: GetObject on results/<fileId>.json, *)
(* then JSON.parse.  NoSuchKey is answered 404, any other S3 error and a    *)
(* body that does not parse 500, a parsed body 200 with the data.           *)
ResultsResponse(content, fault) ==
    IF fault THEN [st |-> "failed", data |-> None]
    ELSE IF content = Absent THEN [st |-> "notfound", data |-> None]
    ELSE IF content = Malformed THEN [st |-> "failed", data |-> None]
    ELSE [st |-> "ok", data |-> content]

FetchServe(p) ==
    \E r \in fetches[p] :
      /\ r.st = "req"
      /\ \E fault \in BOOLEAN :
           /\ fault => faults < MaxFaults
           /\ faults' = IF fault THEN faults + 1 ELSE faults
           /\ LET resp == ResultsResponse(store[r.fileId], fault)
              IN  fetches' = [fetches EXCEPT ![p] =
                                (@ \ {r}) \cup {[r EXCEPT !.st = resp.st, !.data = resp.data]}]
      /\ UNCHANGED <<pg, inits, count, lastOutcome, store, lambdaPending, invocations, ml, analysis,
                   calc, statusResp,
                   uploads, api>>

(* fetchAnalysisResults after the await *)
FetchDeliver(p) ==
    \E r \in fetches[p] :
      /\ r.st # "req"
      /\ fetches' = [fetches EXCEPT ![p] = @ \ {r}]
      /\ pg' = [pg EXCEPT ![p] = PollEffect(@, FetchEnd(@, r.st, r.data))]
      /\ lastOutcome' = [lastOutcome EXCEPT ![p] = r.st]
      /\ count' = [count EXCEPT ![p].absent = IF r.st = "notfound" THEN @ + 1 ELSE @]
      /\ UNCHANGED <<inits, store, lambdaPending, invocations, faults, ml, analysis,
                     calc, statusResp,
                   uploads, api>>

(* the poll timer's callback *)
TimerFire(p) ==
    /\ pg[p].pollTimer
    /\ IF pg[p].fileId # None
       THEN /\ pg' = [pg EXCEPT ![p] =
                        PollEffect(@, FetchStart([@ EXCEPT !.pollTimer = FALSE,
                                                           !.pollingAttempts = @ + 1]))]
            /\ IssueRead(p, pg[p].fileId, "timer")
       ELSE /\ pg' = [pg EXCEPT ![p].pollTimer = FALSE]
            /\ UNCHANGED <<fetches, count>>
    /\ UNCHANGED <<inits, lastOutcome, store, lambdaPending, invocations, faults, ml, analysis,
                   calc, statusResp,
                   uploads, api>>

(* The page is closed: the component unmounts and the cleanup of the poll   *)
(* effect clears the pending timer.  The init effect returns no cleanup:    *)
(* an initAnalysis() under way goes on.                                     *)
Unmount(p) ==
    /\ pg[p].mounted
    /\ pg' = [pg EXCEPT ![p].mounted = FALSE, ![p].pollTimer = FALSE]
    /\ count' = [count EXCEPT ![p].unmounts = @ + 1]
    /\ UNCHANGED <<inits, fetches, lastOutcome, store, lambdaPending, invocations, faults,
                   ml, analysis, calc, statusResp,
                   uploads, api>>

(* variant: the Retry button rendered whenever the page is not loading *)
RetryShownAlways(s) == s.mounted /\ ~s.loading

(* the error screen of STATAPage is rendered when not loading and error is set *)
RetryShown(s) == s.mounted /\ ~s.loading /\ s.error # NoError

(* variant: the click starts the attempt count again *)
RetryResetsAttempts(p) ==
    /\ RetryShown(pg[p])
    /\ count[p].retries < MaxRetry
    /\ IF pg[p].fileId # None
       THEN /\ pg' = [pg EXCEPT ![p] =
                        PollEffect(@, FetchStart([@ EXCEPT !.pollingAttempts = 0]))]
            /\ fetches' = [fetches EXCEPT ![p] =
                             @ \cup {[id |-> NextReadId(p), fileId |-> pg[p].fileId,
                                      st |-> "req", data |-> None]}]
            /\ count' = [count EXCEPT ![p].manual = @ + 1, ![p].retries = @ + 1]
       ELSE /\ count' = [count EXCEPT ![p].retries = @ + 1]
            /\ UNCHANGED <<pg, fetches>>
    /\ UNCHANGED <<inits, lastOutcome, store, lambdaPending, invocations, faults, ml,
                   analysis, calc, statusResp,
                   uploads, api>>

(* the 'Analysis Failed' screen of EnhancedSTATAPage: rendered when not     *)
(* loading, with an error and no analysis result held                       *)
ErrorScreenShown(s) ==
    s.mounted /\ ~s.loading /\ s.error # NoError /\ s.selectedFile \notin Results

(* a click on Retry *)
Retry(p) ==
    /\ RetryShown(pg[p])
    /\ count[p].retries < MaxRetry
    /\ IF pg[p].fileId # None
       THEN /\ pg' = [pg EXCEPT ![p] = PollEffect(@, FetchStart(@))]
            /\ fetches' = [fetches EXCEPT ![p] =
                             @ \cup {[id |-> NextReadId(p), fileId |-> pg[p].fileId,
                                      st |-> "req", data |-> None]}]
            /\ count' = [count EXCEPT ![p].manual = @ + 1, ![p].retries = @ + 1]
       ELSE /\ count' = [count EXCEPT ![p].retries = @ + 1]
            /\ UNCHANGED <<pg, fetches>>
    /\ UNCHANGED <<inits, lastOutcome, store, lambdaPending, invocations, faults, ml, analysis,
                   calc, statusResp,
                   uploads, api>>

(* GET /status/:fileId on the backend: GetObject on results/<fileId>.json;  *)
(* an object there is answered 'completed' (the body is not parsed),        *)
(* NoSuchKey 'pending', any other S3 error 500.                             *)
StatusResponse(content, fault) ==
    IF fault THEN "failed"
    ELSE IF content = Absent THEN "pending"
    ELSE "completed"

(* variant: a status query for a file without result starts the analysis *)
StatusQueryTriggers(f) ==
    \E fault \in BOOLEAN :
       /\ statusResp' = [statusResp EXCEPT ![f] = StatusResponse(store[f], fault)]
       /\ lambdaPending' = [lambdaPending EXCEPT ![f] =
                              IF StatusResponse(store[f], fault) = "pending" THEN @ + 1 ELSE @]
       /\ invocations' = [invocations EXCEPT ![f] =
                            IF StatusResponse(store[f], fault) = "pending" THEN @ + 1 ELSE @]
       /\ UNCHANGED <<pg, inits, fetches, count, lastOutcome, store, faults, ml,
                      analysis, calc,
                   uploads, api>>

StatusQuery(f) ==
    \E fault \in BOOLEAN :
       /\ statusResp' = [statusResp EXCEPT ![f] = StatusResponse(store[f], fault)]
       /\ UNCHANGED <<pg, inits, fetches, count, lastOutcome, store, lambdaPending,
                      invocations, faults, ml, analysis, calc,
                   uploads, api>>

(* The static-analysis Lambda runs one accepted invocation: it writes its   *)
(* result object, writes something that does not parse, or dies without     *)
(* writing.                                                                 *)
LambdaRun(f) ==
    /\ lambdaPending[f] > 0
    /\ lambdaPending' = [lambdaPending EXCEPT ![f] = @ - 1]
    /\ \E c \in {"r1", Malformed, None} :
         store' = IF c = None THEN store ELSE [store EXCEPT ![f] = c]
    /\ UNCHANGED <<pg, inits, fetches, count, lastOutcome, invocations, faults, ml, analysis,
                   calc, statusResp,
                   uploads, api>>

----------------------------------------------------------------------------
(* Requests sent to the backend directly                                    *)

(* file IDs a request may name: f1, f10 and a fileId of a result listing *)
UploadIds == {<<f>> : f \in FileIds} \cup {<<f, "0">> : f \in FileIds}

FileNames == {"a.sh", "b.sh"}

UploadKeys == {UploadKey(id, n) : id \in UploadIds, n \in FileNames}

RequestIds == UploadIds \cup {ListedFileId(k) : k \in ResultsBucketKeys}

(* variant: the invocation is sent before the parameters are looked at *)
TriggerRequestInvokesFirst(fileId, hasKey, hasBucket) ==
    /\ IF fileId = <<>>
       THEN UNCHANGED <<lambdaPending, invocations>>
       ELSE /\ invocations[fileId[1]] < MaxInvocations
            /\ lambdaPending' = [lambdaPending EXCEPT ![fileId[1]] = @ + 1]
            /\ invocations' = [invocations EXCEPT ![fileId[1]] = @ + 1]
    /\ api' = Answer("trigger", fileId, IF fileId = <<>> \/ ~hasKey \/ ~hasBucket THEN 400 ELSE 202)
    /\ UNCHANGED <<pg, inits, fetches, count, lastOutcome, store, faults, ml, analysis,
                   calc, statusResp, uploads>>

(* POST /trigger/:fileId: a request without fileId, s3Key or s3Bucket is    *)
(* answered 400 before the Lambda client is used; otherwise the Lambda is   *)
(* invoked asynchronously and the request answered 202, or the invocation   *)
(* throws and the request is answered 400 (InvalidRequestContentException)  *)
(* or 500.                                                                  *)
TriggerRequest(fileId, hasKey, hasBucket) ==
    IF fileId = <<>> \/ ~hasKey \/ ~hasBucket
    THEN /\ api' = Answer("trigger", fileId, 400)
         /\ UNCHANGED <<pg, inits, fetches, count, lastOutcome, store, lambdaPending,
                        invocations, faults, ml, analysis, calc, statusResp, uploads>>
    ELSE \E answer \in {202, 400, 500} :
           /\ answer = 202 => invocations[fileId[1]] < MaxInvocations
           /\ lambdaPending' = [lambdaPending EXCEPT ![fileId[1]] =
                                  IF answer = 202 THEN @ + 1 ELSE @]
           /\ invocations' = [invocations EXCEPT ![fileId[1]] =
                                IF answer = 202 THEN @ + 1 ELSE @]
           /\ api' = Answer("trigger", fileId, answer)
           /\ UNCHANGED <<pg, inits, fetches, count, lastOutcome, store, faults, ml,
                          analysis, calc, statusResp, uploads>>

(* the status of the answer of GET /results/:fileId *)
ResultsStatus(st) ==
    CASE st = "ok" -> 200
      [] st = "notfound" -> 404
      [] OTHER -> 500

(* GET /results/:fileId *)
ResultsQuery(fileId) ==
    \E fault \in BOOLEAN :
       /\ fault => faults < MaxFaults
       /\ faults' = IF fault THEN faults + 1 ELSE faults
       /\ LET resp == ResultsResponse(ObjectAt(ResultKey(fileId)), fault)
          IN  api' = [Answer("results", fileId, ResultsStatus(resp.st)) EXCEPT
                        !.result = IF resp.st = "ok" THEN <<resp.data>> ELSE <<>>]
       /\ UNCHANGED <<pg, inits, fetches, count, lastOutcome, store, lambdaPending,
                      invocations, ml, analysis, calc, statusResp, uploads>>

(* GET /results: ListObjectsV2 on the results bucket without a Prefix; each *)
(* object is listed with its key and the key without '.json' as its fileId  *)
ListResults ==
    \E fault \in BOOLEAN :
       /\ fault => faults < MaxFaults
       /\ faults' = IF fault THEN faults + 1 ELSE faults
       /\ IF fault
          THEN api' = Answer("list", <<>>, 500)
          ELSE \E contents \in ListObjects(ResultsBucketKeys, <<>>, ListMaxKeys) :
                 api' = [Answer("list", <<>>, 200) EXCEPT
                           !.results = {[fileId |-> ListedFileId(k), s3Key |-> k] :
                                          k \in contents}]
       /\ UNCHANGED <<pg, inits, fetches, count, lastOutcome, store, lambdaPending,
                      invocations, ml, analysis, calc, statusResp, uploads>>

(* DELETE /:fileId of the files route: the objects of the jobs bucket under *)
(* uploads/<fileId>/ are listed; none is answered 404; otherwise each       *)
(* listed object is deleted and the request answered 200 with the deleted   *)
(* keys.  An S3 error is answered 500: at the listing before anything is    *)
(* deleted, at a DeleteObject with the other deletions done or not.         *)
DeleteFile(fileId) ==
    \E fault \in {"none", "list", "delete"} :
       /\ fault # "none" => faults < MaxFaults
       /\ faults' = IF fault # "none" THEN faults + 1 ELSE faults
       /\ IF fault = "list"
          THEN /\ api' = Answer("delete", fileId, 500)
               /\ UNCHANGED uploads
          ELSE \E contents \in ListObjects(uploads, UploadPrefix(fileId), DeleteMaxKeys) :
                 IF contents = {}
                 THEN /\ fault = "none"
                      /\ api' = Answer("delete", fileId, 404)
                      /\ UNCHANGED uploads
                 ELSE IF fault = "delete"
                 THEN \E done \in SUBSET contents :
                        /\ done # contents
                        /\ uploads' = uploads \ done
                        /\ api' = Answer("delete", fileId, 500)
                 ELSE /\ uploads' = uploads \ contents
                      /\ api' = [Answer("delete", fileId, 200) EXCEPT
                                   !.deletedKeys = contents]
       /\ UNCHANGED <<pg, inits, fetches, count, lastOutcome, store, lambdaPending,
                      invocations, ml, analysis, calc, statusResp>>

(* POST /api/ml/analyze/:fileId and POST /api/ml/bert/analyze/:fileId: the  *)
(* route reads the script from the jobs bucket, posts it to the ML API and  *)
(* answers with the analysis; each failure is answered with its own status. *)
MlOutcomes ==
    {"malicious", "benign", "NoSuchKey", "NoSuchBucket", "ECONNREFUSED", "ETIMEDOUT",
     "apiError", "other"}

MlStatus(outcome) ==
    CASE outcome \in {"malicious", "benign"} -> 200
      [] outcome = "NoSuchKey" -> 404
      [] outcome = "NoSuchBucket" -> 500
      [] outcome = "ECONNREFUSED" -> 503
      [] outcome = "ETIMEDOUT" -> 504
      [] outcome = "apiError" -> 422
      [] OTHER -> 500

(* a client posts the request *)
MlRequest(e) ==
    /\ ml[e].st = "idle"
    /\ ml' = [ml EXCEPT ![e].st = "req"]
    /\ UNCHANGED <<pg, inits, fetches, count, lastOutcome, store, lambdaPending,
                   invocations, faults, analysis,
                   calc, statusResp,
                   uploads, api>>

(* variant: the two routes share one module-level result cell, so a failure *)
(* of one wipes the answer of the other                                     *)
MlServeShared(e) ==
    /\ ml[e].st = "req"
    /\ \E outcome \in MlOutcomes :
         ml' = [x \in MlEngines |->
                  IF x = e
                  THEN [st |-> "done", status |-> MlStatus(outcome),
                        verdict |-> IF MlStatus(outcome) = 200
                                    THEN outcome ELSE None]
                  ELSE IF MlStatus(outcome) # 200 /\ ml[x].st = "done"
                       THEN [ml[x] EXCEPT !.status = MlStatus(outcome), !.verdict = None]
                       ELSE ml[x]]
    /\ UNCHANGED <<pg, inits, fetches, count, lastOutcome, store, lambdaPending,
                   invocations, faults, analysis,
                   calc, statusResp,
                   uploads, api>>

(* the route handler *)
MlServe(e) ==
    /\ ml[e].st = "req"
    /\ \E outcome \in MlOutcomes :
         ml' = [ml EXCEPT ![e] =
                  [st |-> "done", status |-> MlStatus(outcome),
                   verdict |-> IF MlStatus(outcome) = 200 THEN outcome ELSE None]]
    /\ UNCHANGED <<pg, inits, fetches, count, lastOutcome, store, lambdaPending,
                   invocations, faults, analysis,
                   calc, statusResp,
                   uploads, api>>

----------------------------------------------------------------------------
(* The job of a page, read off the component's state *)

ReadsIssued(p) == count[p].first + count[p].timer + count[p].manual

(* automatic work of the page is still pending *)
Busy(p) == inits[p] # {} \/ fetches[p] # {} \/ pg[p].pollTimer

Settled(p) == pg[p].mounted /\ ~Busy(p) /\ ~pg[p].loading

Completed(p) ==
    Settled(p) /\ pg[p].error = NoError /\ pg[p].selectedFile \in Results

TimedOut(p) ==
    /\ Settled(p)
    /\ pg[p].error = ErrNotFound
    /\ pg[p].analysisTriggered
    /\ pg[p].pollingAttempts >= MaxPollingAttempts

Failed(p) == Settled(p) /\ pg[p].error # NoError /\ ~TimedOut(p)

Terminal(p) == Completed(p) \/ Failed(p) \/ TimedOut(p)

(* every read of the page so far was answered "not found" *)
AllAbsent(p) == fetches[p] = {} /\ count[p].absent = ReadsIssued(p)

----------------------------------------------------------------------------
(* The jobs of the three engines *)

(* votes['stata'] = stata_result['verdict'] == 'MALICIOUS': the verdict is  *)
(* part of the result document; of the two documents of the model "r1"      *)
(* carries MALICIOUS                                                        *)
StataVerdict(r) == IF r = "r1" THEN "malicious" ELSE "benign"

JobCompleted(e) ==
    IF e = "stata" THEN Completed("p1")
    ELSE ml[e].st = "done" /\ ml[e].status = 200

JobFailed(e) ==
    IF e = "stata" THEN Failed("p1") \/ TimedOut("p1")
    ELSE ml[e].st = "done" /\ ml[e].status # 200

JobVote(e) ==
    IF e = "stata" THEN StataVerdict(pg["p1"].selectedFile) ELSE ml[e].verdict

(* the trigger of the engine could not be submitted *)
TriggerFailed(e) ==
    IF e = "stata"
    THEN pg["p1"].mounted /\ inits["p1"] = {} /\ count["p1"].acks = 0 /\ pg["p1"].meta
    ELSE ml[e].st = "done" /\ ml[e].status # 200

(* everything the model holds about one engine's job *)
JobVars(e) ==
    IF e = "stata"
    THEN <<pg["p1"], inits["p1"], fetches["p1"], count["p1"], lastOutcome["p1"]>>
    ELSE <<ml[e]>>

----------------------------------------------------------------------------
(* Analyze: the call that fans out over the engines and reduces whatever    *)
(* has completed when its deadline passes                                   *)

(* variant: a strict majority required *)
MajorityStrict(maliciousCount, total) == 2 * maliciousCount > total

(* is_malicious = malicious_count >= (total_analyses / 2) *)
MajorityMalicious(maliciousCount, total) == 2 * maliciousCount >= total

(* final verdict: Benign when nothing reported, else the majority rule *)
FinalVerdict(agreementCount, totalReporting) ==
    IF totalReporting > 0 /\ MajorityMalicious(agreementCount, totalReporting)
    THEN "Malicious" ELSE "Benign"

(* variant: the entries for one and two malicious votes exchanged *)
confidence_mapSwapped(malicious_count) ==
    CASE malicious_count = 3 -> "High confidence (unanimous)"
      [] malicious_count = 2 -> "Low confidence (minority)"
      [] malicious_count = 1 -> "Medium confidence (majority)"
      [] malicious_count = 0 -> "High confidence benign (unanimous)"

(* confidence_map of consensus_verdict, keyed by the malicious count of *)
(* the three votes                                                      *)
confidence_map(malicious_count) ==
    CASE malicious_count = 3 -> "High confidence (unanimous)"
      [] malicious_count = 2 -> "Medium confidence (majority)"
      [] malicious_count = 1 -> "Low confidence (minority)"
      [] malicious_count = 0 -> "High confidence benign (unanimous)"

(* the label enum of a confidence text *)
NormalizeLabel(text) ==
    CASE text \in {"High confidence (unanimous)", "High confidence benign (unanimous)"}
           -> "Unanimous"
      [] text = "Medium confidence (majority)" -> "Majority"
      [] text = "Low confidence (minority)" -> "Minority"

(* variant: a tie counted as a majority, as the final verdict counts it *)
ConfidenceLabelTieMajority(agreementCount, totalReporting) ==
    IF totalReporting = 0 THEN "NoData"
    ELSE IF agreementCount = 0 \/ agreementCount = totalReporting THEN "Unanimous"
    ELSE IF 2 * agreementCount >= totalReporting THEN "Majority"
    ELSE "Minority"

(* the confidence label: with all three engines reporting it is the entry   *)
(* of confidence_map; on a smaller subset Unanimous when none or all voted  *)
(* malicious, Majority when strictly more than half, Minority otherwise     *)
ConfidenceLabel(agreementCount, totalReporting) ==
    IF totalReporting = 0 THEN "NoData"
    ELSE IF totalReporting = Cardinality(Engines)
         THEN NormalizeLabel(confidence_map(agreementCount))
    ELSE IF agreementCount = 0 \/ agreementCount = totalReporting THEN "Unanimous"
    ELSE IF 2 * agreementCount > totalReporting THEN "Majority"
    ELSE "Minority"

Reduce(votes) ==
    LET reporting == {e \in Engines : votes[e] # None}
        agreement == Cardinality({e \in reporting : votes[e] = "malicious"})
        total == Cardinality(reporting)
    IN  [totalReporting |-> total,
         agreementCount |-> agreement,
         finalVerdict |-> FinalVerdict(agreement, total),
         confidenceLabel |-> ConfidenceLabel(agreement, total),
         perEngineVerdicts |-> votes]

(* Reduce over the list of the engines' slots, in the order given.  A slot  *)
(* is [engine, verdict]: verdict is <<v>> with v = [isMalicious, riskScore] *)
(* when the engine reported and <<>> when it did not.                       *)
IsReport(slot) == Len(slot.verdict) = 1

Reporting(slots) == SelectSeq(slots, IsReport)

RECURSIVE CountMalicious(_)
CountMalicious(vs) ==
    IF vs = <<>> THEN 0
    ELSE (IF Head(vs).verdict[1].isMalicious THEN 1 ELSE 0) + CountMalicious(Tail(vs))

RECURSIVE SumRisk(_)
SumRisk(vs) ==
    IF vs = <<>> THEN 0
    ELSE Head(vs).verdict[1].riskScore + SumRisk(Tail(vs))

(* variant: the mean taken over all slots, an absent engine counting as 0 *)
MeanRiskOverSlots(slots) ==
    IF Len(slots) = 0 THEN 0
    ELSE (100 * SumRisk(Reporting(slots))) \div Len(slots)

(* combinedRiskScore: the arithmetic mean of the reporting verdicts' risk   *)
(* scores, in hundredths (5333 is 53.33); 0 when nothing reported           *)
MeanRisk(slots) ==
    IF Len(Reporting(slots)) = 0 THEN 0
    ELSE (100 * SumRisk(Reporting(slots))) \div Len(Reporting(slots))

VerdictOf(slots, e) ==
    IF \E i \in 1..Len(slots) : slots[i].engine = e /\ IsReport(slots[i])
    THEN LET i == CHOOSE i \in 1..Len(slots) : slots[i].engine = e /\ IsReport(slots[i])
         IN  <<slots[i].verdict[1]>>
    ELSE <<>>

(* variant: on a tie the verdict listed last decides *)
ReduceVerdictsLastWins(slots) ==
    LET vs == Reporting(slots)
        total == Len(vs)
        agreement == CountMalicious(vs)
    IN  [totalReporting |-> total,
         agreementCount |-> agreement,
         finalVerdict |-> IF total > 0 /\ 2 * agreement = total
                          THEN (IF vs[total].verdict[1].isMalicious
                                THEN "Malicious" ELSE "Benign")
                          ELSE FinalVerdict(agreement, total),
         confidenceLabel |-> ConfidenceLabel(agreement, total),
         combinedRiskScore |-> MeanRisk(slots),
         perEngineVerdicts |-> [e \in Engines |-> VerdictOf(slots, e)]]

ReduceVerdicts(slots) ==
    LET vs == Reporting(slots)
        total == Len(vs)
        agreement == CountMalicious(vs)
    IN  [totalReporting |-> total,
         agreementCount |-> agreement,
         finalVerdict |-> FinalVerdict(agreement, total),
         confidenceLabel |-> ConfidenceLabel(agreement, total),
         combinedRiskScore |-> MeanRisk(slots),
         perEngineVerdicts |-> [e \in Engines |-> VerdictOf(slots, e)]]

(* the verdicts of the jobs that are Completed now *)
Collected == [e \in Engines |-> IF JobCompleted(e) THEN JobVote(e) ELSE None]

AnalyzeStart ==
    /\ analysis.st = "idle"
    /\ analysis' = [analysis EXCEPT !.st = "open"]
    /\ UNCHANGED <<pg, inits, fetches, count, lastOutcome, store, lambdaPending,
                   invocations, faults, ml,
                   calc, statusResp,
                   uploads, api>>

(* Analyze triggers the engines concurrently *)
AnalyzeTrigger(e) ==
    /\ analysis.st = "open"
    /\ IF e = "stata" THEN Mount("p1") ELSE MlRequest(e)

(* variant: Analyze waits until every job is terminal *)
AnalyzeReturnWaitsForAll ==
    /\ analysis.st = "open"
    /\ \A e \in Engines : JobCompleted(e) \/ JobFailed(e)
    /\ analysis' = IF \A e \in Engines : TriggerFailed(e)
                   THEN [st |-> "error", response |-> None]
                   ELSE [st |-> "returned", response |-> Reduce(Collected)]
    /\ UNCHANGED <<pg, inits, fetches, count, lastOutcome, store, lambdaPending,
                   invocations, faults, ml,
                   calc, statusResp,
                   uploads, api>>

(* the deadline passes, or every job is terminal: Analyze answers *)
AnalyzeReturn ==
    /\ analysis.st = "open"
    /\ analysis' = IF \A e \in Engines : TriggerFailed(e)
                   THEN [st |-> "error", response |-> None]
                   ELSE [st |-> "returned", response |-> Reduce(Collected)]
    /\ UNCHANGED <<pg, inits, fetches, count, lastOutcome, store, lambdaPending,
                   invocations, faults, ml,
                   calc, statusResp,
                   uploads, api>>

----------------------------------------------------------------------------
(* what a page does by itself, and what its backend requests do *)
AutoStep(p) ==
    \/ Mount(p)
    \/ TriggerServeOk(p)
    \/ TriggerServeFail(p)
    \/ TriggerDeliver(p)
    \/ WaitDone(p)
    \/ FetchServe(p)
    \/ FetchDeliver(p)
    \/ TimerFire(p)

(* One page instance *)
Next ==
    \/ \E p \in {"p1"} : AutoStep(p)
    \/ \E p \in {"p1"} : Retry(p)
    \/ \E f \in FileIds : LambdaRun(f)

Spec == Init /\ [][Next]_vars

(* The scheduling the runtime guarantees: a request is answered (or times  *)
(* out, which the page handles as a failed read), a continuation runs, a    *)
(* timer fires.  Nothing obliges the Lambda to run or the user to click.    *)
Fairness ==
    \A p \in {"p1"} :
      /\ WF_vars(TriggerServeOk(p) \/ TriggerServeFail(p))
      /\ WF_vars(TriggerDeliver(p))
      /\ WF_vars(WaitDone(p))
      /\ WF_vars(FetchServe(p))
      /\ WF_vars(FetchDeliver(p))
      /\ WF_vars(TimerFire(p))

LiveSpec == Init /\ [][Next]_vars /\ Fairness

(* Two clients open the analysis page *)
NextTwo ==
    \/ \E p \in Pages : AutoStep(p)
    \/ \E f \in FileIds : LambdaRun(f)

SpecTwo == Init /\ [][NextTwo]_vars

(* One page instance that the user may close *)
NextCancel ==
    \/ Next
    \/ Unmount("p1")

SpecCancel == Init /\ [][NextCancel]_vars

(* One page instance, with status queries for the file *)
NextStatus ==
    \/ Next
    \/ \E f \in FileIds : StatusQuery(f)

SpecStatus == Init /\ [][NextStatus]_vars

(* Requests to the backend, with no page open and no Lambda run in between *)
InitBackend ==
    /\ pg = [p \in Pages |-> InitialState]
    /\ inits = [p \in Pages |-> {}]
    /\ fetches = [p \in Pages |-> {}]
    /\ count = [p \in Pages |->
                 [runs |-> 0, first |-> 0, timer |-> 0, manual |-> 0, absent |-> 0,
                  acks |-> 0, nacks |-> 0, retries |-> 0, unmounts |-> 0]]
    /\ lastOutcome = [p \in Pages |-> None]
    /\ store \in [FileIds -> {Absent, Malformed, "r0"}]
    /\ lambdaPending = [f \in FileIds |-> 0]
    /\ invocations = [f \in FileIds |-> 0]
    /\ faults = 0
    /\ ml = [e \in MlEngines |-> [st |-> "idle", status |-> 0, verdict |-> None]]
    /\ analysis = [st |-> "idle", response |-> None]
    /\ calc = [op |-> None, in |-> None, out |-> None]
    /\ statusResp = [f \in FileIds |-> None]
    /\ uploads \in SUBSET UploadKeys
    /\ api = NoAnswer

NextBackend ==
    \/ \E f \in FileIds : StatusQuery(f)
    \/ \E id \in {<<f>> : f \in FileIds} \cup {<<>>}, hasKey \in BOOLEAN, hasBucket \in BOOLEAN :
         TriggerRequest(id, hasKey, hasBucket)
    \/ \E id \in RequestIds : ResultsQuery(id)
    \/ ListResults
    \/ \E id \in UploadIds : DeleteFile(id)

SpecBackend == InitBackend /\ [][NextBackend]_vars

(* One Analyze call over the three engines *)
PollerStep(p) ==
    \/ TriggerServeOk(p)
    \/ TriggerServeFail(p)
    \/ TriggerDeliver(p)
    \/ WaitDone(p)
    \/ FetchServe(p)
    \/ FetchDeliver(p)
    \/ TimerFire(p)

NextAnalyze ==
    \/ AnalyzeStart
    \/ \E e \in Engines : AnalyzeTrigger(e)
    \/ AnalyzeReturn
    \/ PollerStep("p1")
    \/ \E e \in MlEngines : MlServe(e)
    \/ \E f \in FileIds : LambdaRun(f)

SpecAnalyze == Init /\ [][NextAnalyze]_vars

----------------------------------------------------------------------------
(* The rule-based engine's risk score *)

ThreatWeight == 60
BehavioralWeight == 40
MaliciousThreshold == 60
SuspiciousThreshold == 35

SubScores == 0..100

(* Weighted average: 60% threat pattern score, 40% behavioral score; both   *)
(* sub-scores in percent, the result in hundredths of a percent             *)
RiskScore(threat, behavioral) == ThreatWeight * threat + BehavioralWeight * behavioral

(* variant: the upper band entered only above the threshold *)
RiskCategoryAbove(score) ==
    IF score > 100 * MaliciousThreshold THEN "Malicious"
    ELSE IF score > 100 * SuspiciousThreshold THEN "Suspicious"
    ELSE "Safe"

(* the bands of the score, score in hundredths of a percent *)
RiskCategory(score) ==
    IF score >= 100 * MaliciousThreshold THEN "Malicious"
    ELSE IF score >= 100 * SuspiciousThreshold THEN "Suspicious"
    ELSE "Safe"

----------------------------------------------------------------------------
(* The reducer and the risk score as computations: an input is drawn, the   *)
(* function is applied to it                                                *)

RiskScores == {0, 10, 70, 80, 100}

Slots ==
    [engine : Engines, verdict : {<<>>}]
      \cup [engine : Engines,
            verdict : {<<v>> : v \in [isMalicious : BOOLEAN, riskScore : RiskScores]}]

SlotLists ==
    {l \in UNION {[1..n -> Slots] : n \in 0..Cardinality(Engines)} :
        \A i, j \in 1..Len(l) : i # j => l[i].engine # l[j].engine}

InitCalc ==
    /\ pg = [p \in Pages |-> InitialState]
    /\ inits = [p \in Pages |-> {}]
    /\ fetches = [p \in Pages |-> {}]
    /\ count = [p \in Pages |->
                 [runs |-> 0, first |-> 0, timer |-> 0, manual |-> 0, absent |-> 0,
                  acks |-> 0, nacks |-> 0, retries |-> 0, unmounts |-> 0]]
    /\ lastOutcome = [p \in Pages |-> None]
    /\ store = [f \in FileIds |-> Absent]
    /\ lambdaPending = [f \in FileIds |-> 0]
    /\ invocations = [f \in FileIds |-> 0]
    /\ faults = 0
    /\ ml = [e \in MlEngines |-> [st |-> "idle", status |-> 0, verdict |-> None]]
    /\ analysis = [st |-> "idle", response |-> None]
    /\ statusResp = [f \in FileIds |-> None]
    /\ uploads = {UploadKey(<<f>>, "a.sh") : f \in FileIds}
    /\ api = NoAnswer
    /\ \/ \E l \in SlotLists : calc = [op |-> "reduce", in |-> l, out |-> <<>>]
       \/ \E t \in SubScores, b \in SubScores :
            calc = [op |-> "risk", in |-> <<t, b>>, out |-> <<>>]

ApplyReduce ==
    /\ calc.op = "reduce" /\ calc.out = <<>>
    /\ calc' = [calc EXCEPT !.out = <<ReduceVerdicts(calc.in)>>]
    /\ UNCHANGED <<pg, inits, fetches, count, lastOutcome, store, lambdaPending,
                   invocations, faults, ml, analysis, statusResp,
                   uploads, api>>

ApplyRisk ==
    /\ calc.op = "risk" /\ calc.out = <<>>
    /\ calc' = [calc EXCEPT !.out =
                  <<[score |-> RiskScore(calc.in[1], calc.in[2]),
                     category |-> RiskCategory(RiskScore(calc.in[1], calc.in[2]))]>>]
    /\ UNCHANGED <<pg, inits, fetches, count, lastOutcome, store, lambdaPending,
                   invocations, faults, ml, analysis, statusResp,
                   uploads, api>>

NextCalc == ApplyReduce \/ ApplyRisk

SpecCalc == InitCalc /\ [][NextCalc]_vars

----------------------------------------------------------------------------
(* C1 as stated: a job whose trigger was acknowledged issues at most 10     *)
(* reads, the first read and the timer-driven polls counted together.       *)
C1_AtMostTenReads ==
    \A p \in Pages :
      count[p].acks > 0 => count[p].first + count[p].timer <= MaxPollingAttempts

(* C1 amended: the attempt budget covers the timer-driven polls only: at    *)
(* most 10 of them, each counted by pollingAttempts, after the one first    *)
(* read; 11 automatic reads at most.                                        *)
C1_ReadBudget ==
    \A p \in Pages :
      /\ count[p].first <= 1
      /\ count[p].timer <= MaxPollingAttempts
      /\ count[p].timer = pg[p].pollingAttempts

C1_Witness ==
    count["p1"].acks > 0 /\ count["p1"].first + count["p1"].timer = MaxPollingAttempts + 1

(* C2: under the runtime's scheduling every opened page reaches Completed,  *)
(* Failed or TimedOut, with no automatic read pending; and a triggered job  *)
(* whose reads all found the result absent is TimedOut when it has settled. *)
C2_PollingTerminates ==
    /\ \A p \in {"p1"} : pg[p].mounted ~> Terminal(p)
    /\ [](\A p \in {"p1"} :
            (Settled(p) /\ count[p].acks > 0 /\ AllAbsent(p)) => TimedOut(p))

C2_Witness ==
    TimedOut("p1") /\ AllAbsent("p1") /\ count["p1"].timer = MaxPollingAttempts

(* C3 as stated: once a read has failed (a storage error, an object that    *)
(* does not parse) the poller issues no further automatic read.             *)
C3_ErrorEndsPolling ==
    [][\A p \in Pages :
         lastOutcome[p] = "failed" => count'[p].timer = count[p].timer]_vars

(* C4 as stated: after a failed trigger no read is issued and the job       *)
(* cannot become Completed.                                                 *)
C4_TriggerFailureEndsJob ==
    \A p \in Pages :
      count[p].nacks > 0 => (ReadsIssued(p) = 0 /\ ~Completed(p))

(* C4 amended: after a failed trigger the page still issues its one first   *)
(* read, but never a timer-driven one; it shows a result only if the store  *)
(* held one already, no engine having been invoked.                         *)
C4_TriggerFailureReadsOnce ==
    \A p \in Pages :
      count[p].nacks > 0 =>
        /\ ~pg[p].analysisTriggered
        /\ ~pg[p].pollTimer
        /\ count[p].timer = 0
        /\ count[p].first <= 1
        /\ pg[p].selectedFile \in Results =>
             (invocations[pg[p].fileId] = 0 /\ store[pg[p].fileId] = pg[p].selectedFile)

C4_Witness ==
    count["p1"].nacks > 0 /\ Completed("p1")

(* C5 as stated: however the triggers of the clients interleave, an         *)
(* artifact's engine is invoked at most once and at most one page polls     *)
(* for it.                                                                  *)
C5_SingleInvocation ==
    \A f \in FileIds :
      /\ invocations[f] <= 1
      /\ Cardinality({p \in Pages : pg[p].fileId = f /\ pg[p].analysisTriggered /\ Busy(p)}) <= 1

(* C6 as stated: no step changes the state or the attempt count of a job    *)
(* that is Completed, Failed or TimedOut.                                   *)
C6_TerminalImmutable ==
    [][\A p \in Pages :
         /\ Completed(p) => Completed(p)'
         /\ Failed(p) => Failed(p)'
         /\ TimedOut(p) => TimedOut(p)'
         /\ Terminal(p) => pg'[p].pollingAttempts = pg[p].pollingAttempts]_vars

(* C6 amended: a Completed job never changes again.  A Failed or TimedOut   *)
(* job keeps its attempt count and arms no timer; its state changes only    *)
(* by a manual Retry, which reads the store again.                          *)
C6_TerminalUntilRetry ==
    [][\A p \in Pages :
         /\ Completed(p) => (pg'[p] = pg[p] /\ ReadsIssued(p)' = ReadsIssued(p))
         /\ (Failed(p) \/ TimedOut(p)) =>
              /\ pg'[p].pollingAttempts = pg[p].pollingAttempts
              /\ ~pg'[p].pollTimer
              /\ count'[p].timer = count[p].timer
              /\ count'[p].manual = count[p].manual => pg'[p] = pg[p]]_vars

C6_Witness ==
    /\ count["p1"].manual > 0
    /\ Completed("p1")
    /\ pg["p1"].pollingAttempts = MaxPollingAttempts

(* C7 as stated: no read is issued, and no job is Completed, before a       *)
(* trigger of the job was acknowledged.                                     *)
C7_NoReadBeforeAck ==
    \A p \in Pages :
      (ReadsIssued(p) > 0 \/ Completed(p)) => count[p].acks > 0

(* C7 amended: the timer-driven polls come only after an acknowledged       *)
(* trigger, and an acknowledgement only after the engine was invoked; the   *)
(* first read waits for the trigger's answer when a trigger was sent, but   *)
(* is issued without any acknowledgement when the trigger failed or the     *)
(* URL lacks the S3 metadata.                                               *)
C7_PollsOnlyAfterAck ==
    \A p \in Pages :
      /\ (count[p].timer > 0 \/ pg[p].pollTimer) => pg[p].analysisTriggered
      /\ pg[p].analysisTriggered => count[p].acks > 0
      /\ count[p].acks > 0 => invocations[pg[p].fileId] > 0
      /\ (pg[p].meta /\ count[p].first > 0) => count[p].acks + count[p].nacks > 0

C7_Witness ==
    pg["p1"].pollTimer /\ count["p1"].timer > 0 /\ count["p1"].acks > 0

(* C8: a read served while the store holds a well-formed result, without a  *)
(* storage fault, is answered with that result, and handling the answer     *)
(* makes the job Completed with it; under the runtime's scheduling a result *)
(* that is in the store for good while an automatic read is still to come   *)
(* is picked up, storage faults aside.                                      *)
AutoReadToCome(p) ==
    \/ inits[p] # {}
    \/ pg[p].pollTimer
    \/ \E r \in fetches[p] : r.st = "req"
    \/ /\ \E r \in fetches[p] : r.st \in {"notfound", "failed"}
       /\ pg[p].analysisTriggered
       /\ pg[p].pollingAttempts < MaxPollingAttempts

C8_ResultPickedUp ==
    /\ [][\A p \in {"p1"} : \A r \in fetches[p] :
            /\ (r.st = "req" /\ r \notin fetches'[p] /\ faults' = faults
                  /\ store[r.fileId] \in Results)
               => [r EXCEPT !.st = "ok", !.data = store[r.fileId]] \in fetches'[p]
            /\ (r.st = "ok" /\ r \notin fetches'[p])
               => (Completed(p)' /\ pg'[p].selectedFile = r.data)]_vars
    /\ \A p \in {"p1"} :
         (/\ pg[p].mounted
          /\ AutoReadToCome(p)
          /\ store["f1"] \in Results
          /\ lambdaPending["f1"] = 0
          /\ faults = MaxFaults) ~> Completed(p)

C8_Witness ==
    Completed("p1") /\ pg["p1"].selectedFile = "r1" /\ count["p1"].timer > 0

----------------------------------------------------------------------------
(* C9: Analyze is never blocked by an engine: while the call is open it can *)
(* answer at once, whatever the engines' jobs are doing, and the response   *)
(* it gives is the consensus over exactly the jobs that are Completed at    *)
(* that moment: they and only they have a verdict in it, totalReporting     *)
(* counts them, and with none Completed totalReporting is 0.                *)
C9_AnswersOverCompleted ==
    /\ [](analysis.st = "open" => ENABLED AnalyzeReturn)
    /\ [][(analysis.st = "open" /\ analysis'.st = "returned") =>
            /\ \A e \in Engines :
                 analysis'.response.perEngineVerdicts[e] =
                    (IF JobCompleted(e) THEN JobVote(e) ELSE None)
            /\ analysis'.response.totalReporting =
                    Cardinality({e \in Engines : JobCompleted(e)})]_vars

(* Analyze has answered with totalReporting = 0 while every engine was      *)
(* triggered and none is terminal: the page still reads, both ML requests   *)
(* are unanswered                                                           *)
C9_Witness ==
    /\ analysis.st = "returned"
    /\ analysis.response.totalReporting = 0
    /\ pg["p1"].mounted /\ Busy("p1")
    /\ \A e \in MlEngines : ml[e].st = "req"

----------------------------------------------------------------------------
(* the reporting slots of a reducer input, counted from the input itself *)
ReportingAt(l) == {i \in 1..Len(l) : Len(l[i].verdict) = 1}

MaliciousAt(l) == {i \in ReportingAt(l) : l[i].verdict[1].isMalicious}

RECURSIVE RiskTotal(_, _)
RiskTotal(l, S) ==
    IF S = {} THEN 0
    ELSE LET i == CHOOSE i \in S : TRUE
         IN  l[i].verdict[1].riskScore + RiskTotal(l, S \ {i})

Reduced == calc.op = "reduce" /\ Len(calc.out) = 1

(* C11: for every list of 0 to 3 verdicts the reducer counts the reporting  *)
(* and the malicious verdicts, returns Malicious exactly when at least half *)
(* of a non-empty set of reporting verdicts voted malicious (a 1-of-2 split *)
(* included), and returns Benign with NoData when nothing reported.         *)
C11_MajorityRule ==
    Reduced =>
      LET r == calc.out[1]
          t == Cardinality(ReportingAt(calc.in))
          a == Cardinality(MaliciousAt(calc.in))
      IN  /\ r.totalReporting = t
          /\ r.agreementCount = a
          /\ t > 0 => (r.finalVerdict = "Malicious" <=> 2 * a >= t)
          /\ t > 0 => r.finalVerdict \in {"Malicious", "Benign"}
          /\ t = 0 => (r.finalVerdict = "Benign" /\ r.confidenceLabel = "NoData")

(* a 1-of-2 split was reduced to Malicious *)
C11_Witness ==
    /\ Reduced
    /\ Cardinality(ReportingAt(calc.in)) = 2
    /\ Cardinality(MaliciousAt(calc.in)) = 1
    /\ calc.out[1].finalVerdict = "Malicious"

C14_MeanOverReporting ==
    Reduced =>
      LET r == calc.out[1]
          R == ReportingAt(calc.in)
          t == Cardinality(R)
      IN  /\ t = 0 => r.combinedRiskScore = 0
          /\ t > 0 => r.combinedRiskScore = (100 * RiskTotal(calc.in, R)) \div t
          /\ ReduceVerdicts(Reporting(calc.in)).combinedRiskScore = r.combinedRiskScore
          /\ \A e \in Engines :
               (\A i \in 1..Len(calc.in) : calc.in[i].engine # e) =>
                 LET absent == [engine |-> e, verdict |-> <<>>]
                 IN  /\ ReduceVerdicts(Append(calc.in, absent)).combinedRiskScore
                          = r.combinedRiskScore
                     /\ ReduceVerdicts(<<absent>> \o calc.in).combinedRiskScore
                          = r.combinedRiskScore

(* two engines reported 80 and 70, the third is listed as absent: 75.00 *)
C14_Witness ==
    /\ Reduced
    /\ Len(calc.in) = 3
    /\ Cardinality(ReportingAt(calc.in)) = 2
    /\ RiskTotal(calc.in, ReportingAt(calc.in)) = 150
    /\ calc.out[1].combinedRiskScore = 7500

(* the orders in which a list can be passed *)
Reorderings(l) ==
    {[i \in 1..Len(l) |-> l[f[i]]] : f \in Permutations(1..Len(l))}

(* C15: the result of the reducer is the same for every order in which the  *)
(* same slots are listed, field by field, and applying the reducer changes  *)
(* nothing but the computation's own result.                                *)
C15_OrderIndependent ==
    /\ [](Reduced => \A m \in Reorderings(calc.in) : ReduceVerdicts(m) = calc.out[1])
    /\ [][calc'.out # calc.out =>
            UNCHANGED <<pg, inits, fetches, count, lastOutcome, store, lambdaPending,
                        invocations, faults, ml, analysis, statusResp,
                   uploads, api>>]_vars

(* a tie was reduced with the malicious verdict listed first and the benign *)
(* one last                                                                 *)
C15_Witness ==
    /\ Reduced
    /\ Len(calc.in) = 2
    /\ ReportingAt(calc.in) = {1, 2}
    /\ calc.in[1].verdict[1].isMalicious
    /\ ~calc.in[2].verdict[1].isMalicious
    /\ calc.out[1].finalVerdict = "Malicious"

(* C16: for all sub-scores in 0..100 the risk score is 0.6 * threat +       *)
(* 0.4 * behavioral (here in hundredths); the category is Malicious exactly *)
(* from 60, Suspicious exactly from 35 up to below 60, Safe exactly below   *)
(* 35, so every score has exactly one category; 90 and 20 give 62,          *)
(* Malicious.                                                               *)
C16_RiskBands ==
    (calc.op = "risk" /\ Len(calc.out) = 1) =>
      LET t == calc.in[1]
          b == calc.in[2]
          r == calc.out[1]
      IN  /\ 10 * r.score = 100 * (6 * t + 4 * b)
          /\ r.category = "Malicious" <=> r.score >= 6000
          /\ r.category = "Suspicious" <=> (3500 <= r.score /\ r.score < 6000)
          /\ r.category = "Safe" <=> r.score < 3500
          /\ r.category \in {"Malicious", "Suspicious", "Safe"}
          /\ (t = 90 /\ b = 20) => (r.score = 6200 /\ r.category = "Malicious")

(* the score of sub-scores 90 and 20 was computed *)
C16_Witness ==
    /\ calc.op = "risk" /\ Len(calc.out) = 1
    /\ calc.in = <<90, 20>>
    /\ calc.out[1] = [score |-> 6200, category |-> "Malicious"]

----------------------------------------------------------------------------
(* C17 as stated: a retry the caller asks for after the job ended Failed or *)
(* TimedOut runs as a new job: it sends a new trigger and its attempt count *)
(* starts at 0.                                                             *)
C17_RetryIsNewJob ==
    [][\A p \in Pages :
         ((Failed(p) \/ TimedOut(p)) /\ count'[p].manual > count[p].manual) =>
            /\ pg'[p].pollingAttempts = 0
            /\ \E t \in inits'[p] : t.pc = "trigger"]_vars

(* C17 amended: a retry the caller asks for after the job ended Failed or   *)
(* TimedOut reads the result store once more for the same job: it sends no  *)
(* trigger, invokes no engine, keeps the attempt count and arms no poll     *)
(* timer; and without the caller asking nothing is read again.              *)
C17_RetryRereads ==
    [][\A p \in Pages :
         (Failed(p) \/ TimedOut(p)) =>
            /\ inits'[p] = {}
            /\ invocations' = invocations
            /\ pg'[p].pollingAttempts = pg[p].pollingAttempts
            /\ pg'[p].analysisTriggered = pg[p].analysisTriggered
            /\ ~pg'[p].pollTimer
            /\ count'[p].manual > count[p].manual =>
                 /\ ReadsIssued(p)' = ReadsIssued(p) + 1
                 /\ count'[p].first = count[p].first
                 /\ pg'[p].loading /\ pg'[p].error = NoError
            /\ count'[p].manual = count[p].manual => ReadsIssued(p)' = ReadsIssued(p)]_vars

(* a TimedOut job was retried by the caller, the read found nothing, and    *)
(* the job is TimedOut again with the attempt count and the one invocation  *)
(* it had                                                                   *)
C17_Witness ==
    /\ count["p1"].manual > 0
    /\ TimedOut("p1")
    /\ pg["p1"].pollingAttempts = MaxPollingAttempts
    /\ invocations["f1"] = 1

(* C18: once the page that owns the job is closed no further read of the    *)
(* result store is issued for the job, wherever in the trigger, wait and    *)
(* poll sequence it was closed; and closing retracts nothing dispatched to  *)
(* the engine.                                                              *)
C18_NoReadAfterClose ==
    [][\A p \in Pages :
         /\ count[p].unmounts > 0 => ReadsIssued(p)' = ReadsIssued(p)
         /\ count'[p].unmounts > count[p].unmounts =>
              (lambdaPending' = lambdaPending /\ invocations' = invocations)]_vars

(* C19: the answer to the trigger of the GNN or of the BERT engine is an    *)
(* acknowledgement given before the analysis has completed: it carries no   *)
(* verdict, which comes later from the engine's result object.              *)
C19_MlTriggerAcknowledges ==
    [][\A e \in MlEngines :
         (ml[e].st = "req" /\ ml'[e].st = "done" /\ ml'[e].status = 200) =>
            ml'[e].verdict = None]_vars

(* C20: a status query triggers no engine and changes no job and no stored  *)
(* object: it changes nothing but the answer given, which is 'completed'    *)
(* exactly when the result object exists, so that after any number of       *)
(* queries the invocations and the result store are what the page and the   *)
(* engine alone made them.                                                  *)
C20_StatusQueryReadOnly ==
    /\ [][statusResp' # statusResp =>
            /\ UNCHANGED <<pg, inits, fetches, count, lastOutcome, store, lambdaPending,
                           invocations, faults, ml, analysis, calc,
                   uploads, api>>
            /\ \A f \in FileIds :
                 statusResp'[f] # statusResp[f] =>
                    statusResp'[f] = StatusResponse(store[f], statusResp'[f] = "failed")]_vars
    /\ [](\A f \in FileIds :
            /\ invocations[f] <= count["p1"].runs
            /\ count["p1"].acks <= invocations[f]
            /\ lambdaPending[f] <= invocations[f])

(* the status was queried while the job polled: the answer was 'pending',   *)
(* the one invocation is the page's, the result object still absent         *)
C20_Witness ==
    /\ statusResp["f1"] = "pending"
    /\ pg["p1"].pollTimer
    /\ count["p1"].timer > 0
    /\ invocations["f1"] = 1
    /\ store["f1"] = Absent

----------------------------------------------------------------------------
(* C21: whenever the page is not loading and a file ID was given, either an *)
(* error is recorded and no analysis result is held, or an analysis result  *)
(* is held and no error is recorded: a failed fetch leaves no result, and a *)
(* result never comes with an error.                                        *)
C21_ErrorOrResult ==
    \A p \in Pages :
      (pg[p].mounted /\ ~pg[p].loading /\ pg[p].fileId # None) =>
         \/ pg[p].error # NoError /\ pg[p].selectedFile = "noresult"
         \/ pg[p].error = NoError /\ pg[p].selectedFile \in Results

(* a read failed on a storage error or an unparseable object: the page      *)
(* holds the error and no result                                            *)
C21_Witness ==
    /\ ~pg["p1"].loading
    /\ lastOutcome["p1"] = "failed"
    /\ pg["p1"].error = ErrFailed
    /\ pg["p1"].selectedFile = "noresult"

(* C23: once the page holds a well-formed result no further read is issued  *)
(* for the job, no timer is armed, and the held result is neither replaced  *)
(* nor cleared, whatever the engine writes to the store afterwards.         *)
C23_ResultIsFinal ==
    [][\A p \in Pages :
         pg[p].selectedFile \in Results =>
            /\ pg'[p].selectedFile = pg[p].selectedFile
            /\ ReadsIssued(p)' = ReadsIssued(p)
            /\ fetches'[p] = {}
            /\ ~pg'[p].pollTimer
            /\ pg'[p].error = NoError]_vars

(* the page holds the earlier result while the store already holds the one  *)
(* the engine wrote after the read                                          *)
C23_Witness ==
    /\ Completed("p1")
    /\ pg["p1"].selectedFile = "r0"
    /\ store["f1"] = "r1"

(* C24: without an acknowledged trigger (the trigger failed, or the URL     *)
(* lacks the S3 metadata so that none was sent) there is no automatic       *)
(* polling: the page issues its first read once and no timer-driven read    *)
(* ever, and when it has settled without a manual Retry exactly one read    *)
(* was issued, whatever it returned.                                        *)
C24_OneReadWithoutAck ==
    \A p \in Pages :
      (pg[p].mounted /\ pg[p].fileId # None /\ count[p].acks = 0) =>
         /\ count[p].timer = 0
         /\ ~pg[p].pollTimer
         /\ pg[p].pollingAttempts = 0
         /\ count[p].first <= 1
         /\ (inits[p] = {} /\ count[p].manual = 0) => ReadsIssued(p) = 1

(* a page opened without S3 metadata sent no trigger, read the store once,  *)
(* found nothing and stays Failed with that one read                        *)
C24_Witness ==
    /\ ~pg["p1"].meta
    /\ count["p1"].acks = 0 /\ count["p1"].nacks = 0
    /\ Failed("p1")
    /\ lastOutcome["p1"] = "notfound"
    /\ ReadsIssued("p1") = 1

(* C25: the attempt counter stays between 0 and 10; a step either leaves it *)
(* as it is or adds 1, and it adds 1 exactly when a pending poll timer      *)
(* fires; a manual Retry and the completion of a fetch leave it as it is.   *)
C25_AttemptCounter ==
    /\ [](\A p \in Pages :
            pg[p].pollingAttempts >= 0 /\ pg[p].pollingAttempts <= MaxPollingAttempts)
    /\ [][\A p \in Pages :
            /\ pg'[p].pollingAttempts \in {pg[p].pollingAttempts, pg[p].pollingAttempts + 1}
            /\ pg'[p].pollingAttempts = pg[p].pollingAttempts + 1
                 <=> (pg[p].pollTimer /\ count'[p].timer = count[p].timer + 1)
            /\ count'[p].manual # count[p].manual
                 => pg'[p].pollingAttempts = pg[p].pollingAttempts
            /\ fetches'[p] \subseteq fetches[p]
                 => pg'[p].pollingAttempts = pg[p].pollingAttempts]_vars

(* the tenth poll is in flight *)
C25_Witness ==
    /\ pg["p1"].pollingAttempts = MaxPollingAttempts
    /\ count["p1"].timer = MaxPollingAttempts
    /\ fetches["p1"] # {}

(* C26: in one page instance at most one read of the result store is in     *)
(* flight at any time, and while one is, the page is loading with no error, *)
(* so that no poll timer is pending and the Retry button is not rendered;   *)
(* nor is a read in flight while initAnalysis is still to issue the first.  *)
C26_OneReadInFlight ==
    \A p \in Pages :
      /\ Cardinality(fetches[p]) <= 1
      /\ fetches[p] # {} =>
           /\ pg[p].loading
           /\ ~pg[p].pollTimer
           /\ ~RetryShown(pg[p])
           /\ inits[p] = {}

(* a timer-driven read is in flight after an earlier read has failed *)
C26_Witness ==
    /\ Cardinality(fetches["p1"]) = 1
    /\ count["p1"].timer > 0
    /\ lastOutcome["p1"] \in {"notfound", "failed"}
    /\ pg["p1"].loading

(* C28: the 'Analysis Failed' screen is shown only when the job is          *)
(* terminal: never while a poll timer is pending, that is while further     *)
(* automatic reads are still to be issued.                                  *)
C28_FailedScreenOnlyTerminal ==
    \A p \in Pages :
      ErrorScreenShown(pg[p]) => (~pg[p].pollTimer /\ (Failed(p) \/ TimedOut(p)))

(* C22: a trigger request that lacks fileId, s3Key or s3Bucket is answered  *)
(* 400, the Lambda is not invoked and nothing but the answer changes.       *)
C22_InvalidTriggerRejected ==
    [][\A id \in {<<f>> : f \in FileIds} \cup {<<>>}, hasKey \in BOOLEAN, hasBucket \in BOOLEAN :
         (TriggerRequest(id, hasKey, hasBucket) /\ (id = <<>> \/ ~hasKey \/ ~hasBucket)) =>
            /\ api'.op = "trigger" /\ api'.status = 400
            /\ invocations' = invocations
            /\ lambdaPending' = lambdaPending
            /\ UNCHANGED <<pg, inits, fetches, count, lastOutcome, store, faults, ml,
                           analysis, calc, statusResp, uploads>>]_vars

(* a request without its S3 metadata was answered 400 after a complete one  *)
(* had been accepted: the one invocation is that of the complete request    *)
C22_Witness ==
    /\ api.op = "trigger" /\ api.status = 400 /\ api.id = <<"f1">>
    /\ invocations["f1"] = 1
    /\ lambdaPending["f1"] = 1

(* C27: when the status endpoint has reported 'completed' for an artifact   *)
(* and the result store has not changed since, a results request for the    *)
(* artifact that meets no storage fault is answered 200 with the stored     *)
(* result; when it has reported 'pending', the request is answered 404.     *)
C27_StatusAgreesWithResults ==
    [][\A f \in FileIds :
         (ResultsQuery(<<f>>) /\ faults' = faults) =>
            /\ statusResp[f] = "completed" =>
                  (api'.status = 200 /\ api'.result = <<store[f]>>)
            /\ statusResp[f] = "pending" => api'.status = 404]_vars

(* C29: DELETE /:fileId removes only objects under uploads/<fileId>/ of the *)
(* jobs bucket and leaves the results bucket as it is, so the result of the *)
(* file is read as before; a delete answered 404 removes nothing, and one   *)
(* answered 200 removes every object of the file.                           *)
C29_DeleteOnlyUploads ==
    [][\A id \in UploadIds :
         DeleteFile(id) =>
            /\ store' = store
            /\ ObjectAt(ResultKey(id))' = ObjectAt(ResultKey(id))
            /\ uploads' \subseteq uploads
            /\ \A k \in uploads \ uploads' :
                 /\ Len(k) = Len(id) + 3
                 /\ SubSeq(k, 1, Len(id) + 2) = <<"uploads/">> \o id \o <<"/">>
            /\ api'.status = 404 => uploads' = uploads
            /\ api'.status = 200 =>
                 \A n \in FileNames : <<"uploads/">> \o id \o <<"/", n>> \notin uploads']_vars

(* f1 was deleted: its objects are gone, those of f10 are in place, and the *)
(* result of f1 is still in the results bucket                              *)
C29_Witness ==
    /\ api.op = "delete" /\ api.status = 200 /\ api.id = <<"f1">>
    /\ Cardinality(api.deletedKeys) = 2
    /\ uploads = {<<"uploads/", "f1", "0", "/", "a.sh">>, <<"uploads/", "f1", "0", "/", "b.sh">>}
    /\ store["f1"] = "r0"

(* C30: every fileId of a result listing, passed to the results request,    *)
(* retrieves the object it was listed for: with no storage fault the        *)
(* request is answered 200 with the object stored under the listed key.     *)
C30_ListThenFetch ==
    [][(api.op = "list" /\ api.status = 200) =>
          \A e \in api.results :
             (ResultsQuery(e.fileId) /\ faults' = faults /\ ObjectAt(e.s3Key) \in Results) =>
                (api'.status = 200 /\ api'.result = <<ObjectAt(e.s3Key)>>)]_vars

====
